---- MODULE Spec2Model ----
(***************************************************************************)
(* FifoQueueAsync: the linked-list FIFO queue with a worker callback and a *)
(* self-rescheduling auto-dequeue loop (src/unnamed/part_000).             *)
(*                                                                         *)
(* The queue object is the heap of Nodes plus head/tail/length and the     *)
(* drain policy.  A setTimeout registration is a pending round; all rounds *)
(* of one queue use the same delay, so they fire in registration order and *)
(* a counter of pending rounds is the whole timer state.                   *)
(***************************************************************************)
EXTENDS Integers, Sequences, FiniteSets, TLC

\* ---- bounds of the model ----
MaxEnq == 3        \* enqueue calls made by the owner over a run
MaxBatch == 2      \* constructor's dequeueBatchSize is 1..MaxBatch
MaxK == 2          \* dequeue(k) is called with k in 0..MaxK
MaxIdleCalls == 1  \* worker invocations with an empty batch over a run
MaxStarts == 2     \* startAutoDequeue() calls made by the owner over a run

\* ---- program constants ----
DefaultDelay == 10

Null == 0          \* JavaScript null: the absent node and the absent element
NoArg == -1        \* getDequeueElements called with batchSize = null
\* The queue never inspects an element, so the owner's values are taken pairwise
\* distinct: the i-th enqueue call passes i.  Distinct values make every
\* reordering, loss and duplication of an element visible.
Values == 1..MaxEnq

Min(a, b) == IF a < b THEN a ELSE b

VARIABLES
    nodes,                  \* heap: node id -> [value, next]
    head, tail, length,     \* this.head, this.tail, this.length
    dequeueWorkerCallback,  \* "function" or "null"
    dequeueBatchSize,
    dequeueDelay,
    manualStop,
    pending,                \* setTimeout registrations not yet fired
    enqueued,               \* history: every value passed to enqueue, in order
    returned,               \* history: concatenation of the batches dequeue returned
    workerCalls,            \* history: the (batch, isEmpty) of every worker invocation
    lastOp,                 \* the last call: [op, arg, ret]
    clearCalled,            \* history: the owner called clear()
    starts,                 \* history: startAutoDequeue() calls made by the owner
    drain,                  \* history: the single undisturbed drain loop, if any
    stopped,                \* history: the last stopAutoDequeue() call made with a round pending
    arr                     \* the array-backed queue run side by side (src/FifoQueueAsync.js)

vars == <<nodes, head, tail, length, dequeueWorkerCallback, dequeueBatchSize,
          dequeueDelay, manualStop, pending, enqueued, returned, workerCalls,
          lastOp, clearCalled, starts, drain, stopped, arr>>

\* ---- return values ----
RetUndefined == [kind |-> "undefined", val |-> <<>>]
RetNull == [kind |-> "null", val |-> <<>>]
RetFalse == [kind |-> "false", val |-> <<>>]
RetList(s) == [kind |-> "list", val |-> s]
RetValue(v) == [kind |-> "value", val |-> <<v>>]

\* ---- the queue object as a record, and the methods as operators ----
Q == [nodes |-> nodes, head |-> head, tail |-> tail, length |-> length]

\* class Node: constructor
NewNode(value) == [value |-> value, next |-> Null]

\* the heap with no live node; a node no reference reaches is collected
EmptyHeap == [n \in {} |-> Null]
Without(ns, n) == [m \in (DOMAIN ns) \ {n} |-> ns[m]]
FreshNode(ns) == IF DOMAIN ns = {} THEN 1
                 ELSE (CHOOSE m \in DOMAIN ns : \A o \in DOMAIN ns : o <= m) + 1

\* variant: tail keeps pointing at the discarded chain
clear_KeepsTail(q) == [q EXCEPT !.nodes = EmptyHeap, !.head = Null, !.length = 0]

\* clear()
clear(q) == [q EXCEPT !.nodes = EmptyHeap, !.head = Null, !.tail = Null, !.length = 0]

\* variant: the new node is linked in but length is not incremented
enqueue_LengthNotCounted(q, value) ==
    LET newNode == FreshNode(q.nodes)
    IN IF q.length = 0
       THEN [q EXCEPT !.nodes = q.nodes @@ (newNode :> NewNode(value)),
                      !.head = newNode,
                      !.tail = newNode]
       ELSE [q EXCEPT !.nodes = [q.nodes EXCEPT ![q.tail].next = newNode]
                                    @@ (newNode :> NewNode(value)),
                      !.tail = newNode]

\* variant: on a non-empty queue the new node is linked in but tail stays behind
enqueue_TailNotAdvanced(q, value) ==
    LET newNode == FreshNode(q.nodes)
    IN IF q.length = 0
       THEN [q EXCEPT !.nodes = q.nodes @@ (newNode :> NewNode(value)),
                      !.head = newNode,
                      !.tail = newNode,
                      !.length = q.length + 1]
       ELSE [q EXCEPT !.nodes = [q.nodes EXCEPT ![q.tail].next = newNode]
                                    @@ (newNode :> NewNode(value)),
                      !.length = q.length + 1]

\* enqueue(value)
enqueue(q, value) ==
    LET newNode == FreshNode(q.nodes)
    IN IF q.length = 0
       THEN [q EXCEPT !.nodes = q.nodes @@ (newNode :> NewNode(value)),
                      !.head = newNode,
                      !.tail = newNode,
                      !.length = q.length + 1]
       ELSE [q EXCEPT !.nodes = [q.nodes EXCEPT ![q.tail].next = newNode]
                                    @@ (newNode :> NewNode(value)),
                      !.tail = newNode,
                      !.length = q.length + 1]

\* variant: hands out the value of the newest node instead of the oldest
getDequeueElement_TailValue(q) ==
    IF q.length = 0
    THEN [q |-> q, item |-> Null]
    ELSE LET removedNode == q.head
             newTail == IF q.head = q.tail THEN Null ELSE q.tail
         IN [q |-> [q EXCEPT !.nodes = Without(q.nodes, removedNode),
                             !.tail = newTail,
                             !.head = q.nodes[q.head].next,
                             !.length = q.length - 1],
             item |-> q.nodes[q.tail].value]

\* variant: the node is unlinked but length is not decremented
getDequeueElement_LengthKept(q) ==
    IF q.length = 0
    THEN [q |-> q, item |-> Null]
    ELSE LET removedNode == q.head
             newTail == IF q.head = q.tail THEN Null ELSE q.tail
         IN [q |-> [q EXCEPT !.nodes = Without(q.nodes, removedNode),
                             !.tail = newTail,
                             !.head = q.nodes[q.head].next],
             item |-> q.nodes[removedNode].value]

\* getDequeueElement(): the queue afterwards and the returned item
getDequeueElement(q) ==
    IF q.length = 0
    THEN [q |-> q, item |-> Null]
    ELSE LET removedNode == q.head
             newTail == IF q.head = q.tail THEN Null ELSE q.tail
         IN [q |-> [q EXCEPT !.nodes = Without(q.nodes, removedNode),
                             !.tail = newTail,
                             !.head = q.nodes[q.head].next,
                             !.length = q.length - 1],
             item |-> q.nodes[removedNode].value]

\* the for loop of getDequeueElements
RECURSIVE DequeueLoop(_, _, _)
DequeueLoop(q, i, elements) ==
    IF i > 0
    THEN LET r == getDequeueElement(q)
         IN DequeueLoop(r.q, i - 1, Append(elements, r.item))
    ELSE [q |-> q, elements |-> elements]

\* variant: the requested size is not clamped to the queue size
getDequeueElements_NoClamp(q, batchSize, dbs) ==
    LET dequeueLimit == IF batchSize = NoArg THEN dbs ELSE batchSize
        r == DequeueLoop(q, dequeueLimit, <<>>)
    IN [q |-> IF r.q.length = 0 THEN clear(r.q) ELSE r.q,
        elements |-> r.elements]

\* getDequeueElements(batchSize = null)
getDequeueElements(q, batchSize, dbs) ==
    LET queueSize == q.length
        dequeueLimit == IF batchSize = NoArg
                        THEN Min(dbs, queueSize)
                        ELSE Min(batchSize, queueSize)
        r == DequeueLoop(q, dequeueLimit, <<>>)
    IN [q |-> IF r.q.length = 0 THEN clear(r.q) ELSE r.q,
        elements |-> r.elements]

\* variant: isEmpty is read before the batch is extracted
dequeueWorker_EmptyBefore(q, cb, dbs) ==
    IF cb = "function"
    THEN LET r == getDequeueElements(q, NoArg, dbs)
         IN [q |-> r.q,
             calls |-> <<[batch |-> r.elements, isEmpty |-> (q.length = 0)]>>]
    ELSE [q |-> q, calls |-> <<>>]

\* variant: the batch is handed to the worker but the removal is not kept
dequeueWorker_RemovalLost(q, cb, dbs) ==
    IF cb = "function"
    THEN LET r == getDequeueElements(q, NoArg, dbs)
         IN [q |-> q,
             calls |-> <<[batch |-> r.elements, isEmpty |-> (r.q.length = 0)]>>]
    ELSE [q |-> q, calls |-> <<>>]

\* dequeueWorker(): the queue afterwards and the worker invocations made
dequeueWorker(q, cb, dbs) ==
    IF cb = "function"
    THEN LET r == getDequeueElements(q, NoArg, dbs)
         IN [q |-> r.q,
             calls |-> <<[batch |-> r.elements, isEmpty |-> (r.q.length = 0)]>>]
    ELSE [q |-> q, calls |-> <<>>]

\* variant: the worker path honours the caller's batchSize
dequeue_UsesK(q, cb, dbs, batchSize) ==
    IF cb # "null" /\ cb = "function"
    THEN LET r == getDequeueElements(q, batchSize, dbs)
         IN [q |-> r.q,
             calls |-> <<[batch |-> r.elements, isEmpty |-> (r.q.length = 0)]>>,
             ret |-> RetUndefined]
    ELSE LET r == getDequeueElements(q, batchSize, dbs)
         IN [q |-> r.q, calls |-> <<>>, ret |-> RetList(r.elements)]

\* dequeue(batchSize = 1)
dequeue(q, cb, dbs, batchSize) ==
    IF cb # "null" /\ cb = "function"
    THEN LET w == dequeueWorker(q, cb, dbs)
         IN [q |-> w.q, calls |-> w.calls, ret |-> RetUndefined]
    ELSE LET r == getDequeueElements(q, batchSize, dbs)
         IN [q |-> r.q, calls |-> <<>>, ret |-> RetList(r.elements)]

\* variant: with manualStop false a round never registers a timer
startAutoDequeue_NoReschedule(q, cb, dbs, ms) ==
    IF cb = "null" \/ cb # "function"
    THEN [q |-> q, calls |-> <<>>, timers |-> 0, ret |-> RetFalse]
    ELSE LET w == dequeueWorker(q, cb, dbs)
         IN IF ~ms
            THEN IF q.length # 0
                 THEN [q |-> w.q, calls |-> w.calls, timers |-> 0, ret |-> RetUndefined]
                 ELSE [q |-> q, calls |-> <<>>, timers |-> 0, ret |-> RetUndefined]
            ELSE [q |-> w.q, calls |-> w.calls, timers |-> 1, ret |-> RetUndefined]

\* variant: with manualStop false the length is tested after the extraction
startAutoDequeue_CheckAfter(q, cb, dbs, ms) ==
    IF cb = "null" \/ cb # "function"
    THEN [q |-> q, calls |-> <<>>, timers |-> 0, ret |-> RetFalse]
    ELSE LET w == dequeueWorker(q, cb, dbs)
         IN IF ~ms
            THEN IF q.length # 0
                 THEN [q |-> w.q, calls |-> w.calls,
                       timers |-> IF w.q.length # 0 THEN 1 ELSE 0,
                       ret |-> RetUndefined]
                 ELSE [q |-> q, calls |-> <<>>, timers |-> 0, ret |-> RetUndefined]
            ELSE [q |-> w.q, calls |-> w.calls, timers |-> 1, ret |-> RetUndefined]

\* variant: manualStop true also stops on an empty queue
startAutoDequeue_ManualChecksLength(q, cb, dbs, ms) ==
    IF cb = "null" \/ cb # "function"
    THEN [q |-> q, calls |-> <<>>, timers |-> 0, ret |-> RetFalse]
    ELSE LET w == dequeueWorker(q, cb, dbs)
         IN IF q.length # 0
            THEN [q |-> w.q, calls |-> w.calls, timers |-> 1, ret |-> RetUndefined]
            ELSE [q |-> q, calls |-> <<>>, timers |-> 0, ret |-> RetUndefined]

\* variant: the worker is invoked first, the stop condition is tested afterwards
startAutoDequeue_WorkerFirst(q, cb, dbs, ms) ==
    IF cb = "null" \/ cb # "function"
    THEN [q |-> q, calls |-> <<>>, timers |-> 0, ret |-> RetFalse]
    ELSE LET w == dequeueWorker(q, cb, dbs)
         IN [q |-> w.q, calls |-> w.calls,
             timers |-> IF ms \/ w.q.length # 0 THEN 1 ELSE 0,
             ret |-> RetUndefined]

\* variant: the missing-worker test is left out
startAutoDequeue_NoGuard(q, cb, dbs, ms) ==
    LET w == dequeueWorker(q, cb, dbs)
    IN IF ~ms
       THEN IF q.length # 0
            THEN [q |-> w.q, calls |-> w.calls, timers |-> 1, ret |-> RetUndefined]
            ELSE [q |-> q, calls |-> <<>>, timers |-> 0, ret |-> RetUndefined]
       ELSE [q |-> w.q, calls |-> w.calls, timers |-> 1, ret |-> RetUndefined]

\* variant: without a worker the call still registers a timer
startAutoDequeue_NoWorkerSchedules(q, cb, dbs, ms) ==
    IF cb = "null" \/ cb # "function"
    THEN [q |-> q, calls |-> <<>>, timers |-> 1, ret |-> RetFalse]
    ELSE LET w == dequeueWorker(q, cb, dbs)
         IN IF ~ms
            THEN IF q.length # 0
                 THEN [q |-> w.q, calls |-> w.calls, timers |-> 1, ret |-> RetUndefined]
                 ELSE [q |-> q, calls |-> <<>>, timers |-> 0, ret |-> RetUndefined]
            ELSE [q |-> w.q, calls |-> w.calls, timers |-> 1, ret |-> RetUndefined]

\* variant: with manualStop true a round registers two timers
startAutoDequeue_DoubleTimer(q, cb, dbs, ms) ==
    IF cb = "null" \/ cb # "function"
    THEN [q |-> q, calls |-> <<>>, timers |-> 0, ret |-> RetFalse]
    ELSE LET w == dequeueWorker(q, cb, dbs)
         IN IF ~ms
            THEN IF q.length # 0
                 THEN [q |-> w.q, calls |-> w.calls, timers |-> 1, ret |-> RetUndefined]
                 ELSE [q |-> q, calls |-> <<>>, timers |-> 0, ret |-> RetUndefined]
            ELSE [q |-> w.q, calls |-> w.calls, timers |-> 2, ret |-> RetUndefined]

\* startAutoDequeue(): queue afterwards, worker invocations, timers registered
startAutoDequeue(q, cb, dbs, ms) ==
    IF cb = "null" \/ cb # "function"
    THEN [q |-> q, calls |-> <<>>, timers |-> 0, ret |-> RetFalse]
    ELSE IF ~ms
         THEN IF q.length # 0
              THEN LET w == dequeueWorker(q, cb, dbs)
                   IN [q |-> w.q, calls |-> w.calls, timers |-> 1,
                       ret |-> RetUndefined]
              ELSE [q |-> q, calls |-> <<>>, timers |-> 0, ret |-> RetUndefined]
         ELSE LET w == dequeueWorker(q, cb, dbs)
              IN [q |-> w.q, calls |-> w.calls, timers |-> 1,
                  ret |-> RetUndefined]

\* variant: reads the newest node
peek_Tail(q) == IF q.length = 0 THEN RetNull ELSE RetValue(q.nodes[q.tail].value)

\* peek()
peek(q) == IF q.length = 0 THEN RetNull ELSE RetValue(q.nodes[q.head].value)

\* isEmpty()
isEmpty(q) == q.length = 0

\* size()
size(q) == q.length

\* ---- the chain as a sequence of values, read through the next links ----
RECURSIVE Chain(_, _)
Chain(ns, n) == IF n = Null THEN <<>> ELSE <<ns[n].value>> \o Chain(ns, ns[n].next)

Contents == Chain(nodes, head)

\* the node ids met by following next from n, at most fuel of them
RECURSIVE ChainNodes(_, _, _)
ChainNodes(ns, n, fuel) ==
    IF n = Null \/ fuel = 0 \/ n \notin DOMAIN ns
    THEN <<>>
    ELSE <<n>> \o ChainNodes(ns, ns[n].next, fuel - 1)

Take(s, n) == SubSeq(s, 1, Min(n, Len(s)))
Drop(s, n) == SubSeq(s, Min(n, Len(s)) + 1, Len(s))
IsPrefix(s, t) == Len(s) <= Len(t) /\ SubSeq(t, 1, Len(s)) = s

\* the batches of the worker invocations, concatenated in invocation order
RECURSIVE Delivered(_)
Delivered(calls) ==
    IF calls = <<>> THEN <<>> ELSE Head(calls).batch \o Delivered(Tail(calls))

\* worker invocations that received an empty batch
IdleCalls(calls) == Cardinality({i \in 1..Len(calls) : calls[i].batch = <<>>})

NoDrain == [active |-> FALSE, q |-> <<>>, calls |-> 0]
\* stopAutoDequeue() was called with a round pending (under manualStop true or
\* false), and then whether that round has fired
StopStates == {"none", "pendingManual", "pendingAuto", "firedManual", "firedAuto"}
NoStop == "none"

\* ---- the array-backed queue of src/FifoQueueAsync.js ----
\* this.items is a sparse array: index -> element
EmptyItems == [i \in {} |-> Null]

\* constructor(dequeueWorker, dequeueBatchSize, dequeueDelay); pending, calls
\* and ret are its timers, its worker invocations and its last return value
aNew(cb, dbs, delay) ==
    [on |-> TRUE, items |-> EmptyItems, front |-> 0, rear |-> 0,
     dequeueWorkerCallback |-> cb, dequeueBatchSize |-> dbs, dequeueDelay |-> delay,
     pending |-> 0, calls |-> <<>>, ret |-> RetUndefined]

\* the linked-list queue run alone: no array-backed queue beside it
aNone == [aNew("null", 1, DefaultDelay) EXCEPT !.on = FALSE]

aIsEmpty(a) == a.front = a.rear

aSize(a) == a.rear - a.front

aClear(a) == [a EXCEPT !.items = EmptyItems, !.front = 0, !.rear = 0]

aEnqueue(a, element) ==
    [a EXCEPT !.items = (a.rear :> element) @@ a.items, !.rear = a.rear + 1]

\* variant: reads the newest slot instead of the oldest
aGetDequeueElement_FromRear(a) ==
    IF aIsEmpty(a)
    THEN [a |-> a, item |-> Null]
    ELSE [a |-> [a EXCEPT !.items = [i \in (DOMAIN a.items) \ {a.front} |-> a.items[i]],
                          !.front = a.front + 1],
          item |-> a.items[a.rear - 1]]

aGetDequeueElement(a) ==
    IF aIsEmpty(a)
    THEN [a |-> a, item |-> Null]
    ELSE [a |-> [a EXCEPT !.items = [i \in (DOMAIN a.items) \ {a.front} |-> a.items[i]],
                          !.front = a.front + 1],
          item |-> a.items[a.front]]

RECURSIVE aDequeueLoop(_, _, _)
aDequeueLoop(a, i, elements) ==
    IF i > 0
    THEN LET r == aGetDequeueElement(a)
         IN aDequeueLoop(r.a, i - 1, Append(elements, r.item))
    ELSE [a |-> a, elements |-> elements]

aGetDequeueElements(a, batchSize) ==
    LET queueSize == aSize(a)
        dequeueLimit == IF batchSize = NoArg
                        THEN Min(a.dequeueBatchSize, queueSize)
                        ELSE Min(batchSize, queueSize)
        r == aDequeueLoop(a, dequeueLimit, <<>>)
    IN [a |-> IF aIsEmpty(r.a) THEN aClear(r.a) ELSE r.a,
        elements |-> r.elements]

aDequeueWorker(a) ==
    IF a.dequeueWorkerCallback = "function"
    THEN LET r == aGetDequeueElements(a, NoArg)
         IN [r.a EXCEPT !.calls = Append(a.calls, [batch |-> r.elements,
                                                   isEmpty |-> aIsEmpty(r.a)])]
    ELSE a

aDequeue(a, batchSize) ==
    IF a.dequeueWorkerCallback # "null" /\ a.dequeueWorkerCallback = "function"
    THEN [aDequeueWorker(a) EXCEPT !.ret = RetUndefined]
    ELSE LET r == aGetDequeueElements(a, batchSize)
         IN [r.a EXCEPT !.ret = RetList(r.elements)]

aStartAutoDequeue(a) ==
    IF a.dequeueWorkerCallback = "null" \/ a.dequeueWorkerCallback # "function"
    THEN [a EXCEPT !.ret = RetFalse]
    ELSE IF ~aIsEmpty(a)
         THEN LET w == aDequeueWorker(a)
              IN [w EXCEPT !.pending = w.pending + 1, !.ret = RetUndefined]
         ELSE [a EXCEPT !.ret = RetUndefined]

\* the setTimeout callback of the array-backed queue
aFireRound(a) ==
    IF a.pending > 0
    THEN aStartAutoDequeue([a EXCEPT !.pending = a.pending - 1])
    ELSE a

aPeek(a) == IF aIsEmpty(a) THEN RetNull ELSE RetValue(a.items[a.front])

aRemoveDequeueWorkerCallback(a) == [a EXCEPT !.dequeueWorkerCallback = "null"]

\* items[front..rear-1] as a sequence
aContents(a) == [i \in 1..aSize(a) |-> a.items[a.front + i - 1]]

\* the same call made on the array-backed queue, when one is run
Beside(a) == IF arr.on THEN a ELSE arr

\* ---- initial state: new FifoQueueAsync(worker, batchSize, delay, manualStop) ----
Init ==
    /\ nodes = EmptyHeap
    /\ head = Null
    /\ tail = Null
    /\ length = 0
    /\ dequeueWorkerCallback \in {"null", "function"}
    /\ dequeueBatchSize \in 1..MaxBatch
    /\ dequeueDelay = DefaultDelay
    /\ manualStop \in BOOLEAN
    /\ pending = 0
    /\ enqueued = <<>>
    /\ returned = <<>>
    /\ workerCalls = <<>>
    /\ lastOp = [op |-> "new", arg |-> NoArg, ret |-> RetUndefined]
    /\ clearCalled = FALSE
    /\ starts = 0
    /\ drain = NoDrain
    /\ stopped = NoStop
    /\ arr = aNone

SetQ(q) ==
    /\ nodes' = q.nodes
    /\ head' = q.head
    /\ tail' = q.tail
    /\ length' = q.length

Policy == <<dequeueWorkerCallback, dequeueBatchSize, dequeueDelay, manualStop>>

\* ---- actions: the owner's calls ----
\* a stop is remembered until the step after its pending round fired
AfterRound(s) == IF s \in {"firedManual", "firedAuto"} THEN NoStop ELSE s

Enqueue(v) ==
    /\ Len(enqueued) < MaxEnq
    /\ v = Len(enqueued) + 1
    /\ SetQ(enqueue(Q, v))
    /\ enqueued' = Append(enqueued, v)
    /\ arr' = Beside([aEnqueue(arr, v) EXCEPT !.ret = RetUndefined])
    /\ lastOp' = [op |-> "enqueue", arg |-> v, ret |-> RetUndefined]
    /\ drain' = NoDrain
    /\ stopped' = AfterRound(stopped)
    /\ UNCHANGED <<Policy, pending, returned, workerCalls, clearCalled, starts>>

Dequeue(k) ==
    LET r == dequeue(Q, dequeueWorkerCallback, dequeueBatchSize, k)
    IN /\ IdleCalls(workerCalls \o r.calls) <= MaxIdleCalls
       /\ SetQ(r.q)
       /\ workerCalls' = workerCalls \o r.calls
       /\ returned' = IF r.ret.kind = "list" THEN returned \o r.ret.val ELSE returned
       /\ arr' = Beside(aDequeue(arr, k))
       /\ lastOp' = [op |-> "dequeue", arg |-> k, ret |-> r.ret]
       /\ drain' = NoDrain
       /\ stopped' = AfterRound(stopped)
       /\ UNCHANGED <<Policy, pending, enqueued, clearCalled, starts>>

StartAutoDequeue ==
    LET r == startAutoDequeue(Q, dequeueWorkerCallback, dequeueBatchSize, manualStop)
    IN /\ starts < MaxStarts
       /\ IdleCalls(workerCalls \o r.calls) <= MaxIdleCalls
       /\ SetQ(r.q)
       /\ workerCalls' = workerCalls \o r.calls
       /\ pending' = pending + r.timers
       /\ starts' = starts + 1
       /\ arr' = Beside(aStartAutoDequeue(arr))
       /\ lastOp' = [op |-> "start", arg |-> NoArg, ret |-> r.ret]
       /\ drain' = IF pending = 0 /\ dequeueWorkerCallback = "function"
                      /\ ~manualStop /\ length >= 1
                   THEN [active |-> TRUE, q |-> Contents, calls |-> Len(workerCalls)]
                   ELSE NoDrain
       /\ stopped' = AfterRound(stopped)
       /\ UNCHANGED <<Policy, enqueued, returned, clearCalled>>

\* a pending round fires: the timer callback calls startAutoDequeue()
FireRound ==
    LET r == startAutoDequeue(Q, dequeueWorkerCallback, dequeueBatchSize, manualStop)
    IN /\ pending > 0
       /\ IdleCalls(workerCalls \o r.calls) <= MaxIdleCalls
       /\ SetQ(r.q)
       /\ workerCalls' = workerCalls \o r.calls
       /\ pending' = pending - 1 + r.timers
       /\ arr' = Beside(aFireRound(arr))
       /\ lastOp' = [op |-> "fire", arg |-> NoArg, ret |-> r.ret]
       /\ stopped' = CASE stopped = "pendingManual" -> "firedManual"
                       [] stopped = "pendingAuto" -> "firedAuto"
                       [] OTHER -> AfterRound(stopped)
       /\ UNCHANGED <<Policy, enqueued, returned, clearCalled, starts, drain>>

Peek ==
    /\ arr' = Beside([arr EXCEPT !.ret = aPeek(arr)])
    /\ lastOp' = [op |-> "peek", arg |-> NoArg, ret |-> peek(Q)]
    /\ stopped' = AfterRound(stopped)
    /\ UNCHANGED <<nodes, head, tail, length, Policy, pending, enqueued, returned,
                   workerCalls, clearCalled, starts, drain>>

Clear ==
    /\ SetQ(clear(Q))
    /\ clearCalled' = TRUE
    /\ arr' = Beside([aClear(arr) EXCEPT !.ret = RetUndefined])
    /\ lastOp' = [op |-> "clear", arg |-> NoArg, ret |-> RetUndefined]
    /\ drain' = NoDrain
    /\ stopped' = AfterRound(stopped)
    /\ UNCHANGED <<Policy, pending, enqueued, returned, workerCalls, starts>>

RemoveDequeueWorkerCallback ==
    /\ dequeueWorkerCallback' = "null"
    /\ arr' = Beside([aRemoveDequeueWorkerCallback(arr) EXCEPT !.ret = RetUndefined])
    /\ lastOp' = [op |-> "removeDequeueWorkerCallback", arg |-> NoArg, ret |-> RetUndefined]
    /\ drain' = NoDrain
    /\ stopped' = AfterRound(stopped)
    /\ UNCHANGED <<nodes, head, tail, length, dequeueBatchSize, dequeueDelay,
                   manualStop, pending, enqueued, returned, workerCalls,
                   clearCalled, starts>>

StopAutoDequeue ==
    /\ manualStop' = FALSE
    /\ arr' = Beside([arr EXCEPT !.ret = RetUndefined])
    /\ lastOp' = [op |-> "stopAutoDequeue", arg |-> NoArg, ret |-> RetUndefined]
    /\ drain' = NoDrain
    /\ stopped' = IF pending = 0 THEN "none"
                  ELSE IF manualStop THEN "pendingManual" ELSE "pendingAuto"
    /\ UNCHANGED <<nodes, head, tail, length, dequeueWorkerCallback,
                   dequeueBatchSize, dequeueDelay, pending, enqueued, returned,
                   workerCalls, clearCalled, starts>>

Next ==
    \/ \E v \in Values : Enqueue(v)
    \/ \E k \in 0..MaxK : Dequeue(k)
    \/ StartAutoDequeue
    \/ FireRound
    \/ Peek
    \/ Clear
    \/ RemoveDequeueWorkerCallback
    \/ StopAutoDequeue

Spec == Init /\ [][Next]_vars

\* the host's event loop runs every registered timer callback in the end
FairSpec == Init /\ [][Next]_vars /\ WF_vars(FireRound)

\* the owner only feeds, starts, empties and unbinds the loop
LoopNext ==
    \/ \E v \in Values : Enqueue(v)
    \/ StartAutoDequeue
    \/ FireRound
    \/ Clear
    \/ RemoveDequeueWorkerCallback

LoopFairSpec == Init /\ [][LoopNext]_vars /\ WF_vars(FireRound)

\* both classes constructed with the same worker, batch size and delay, the
\* linked-list one with manualStop false
PairInit ==
    /\ nodes = EmptyHeap
    /\ head = Null
    /\ tail = Null
    /\ length = 0
    /\ dequeueWorkerCallback \in {"null", "function"}
    /\ dequeueBatchSize \in 1..MaxBatch
    /\ dequeueDelay = DefaultDelay
    /\ manualStop = FALSE
    /\ pending = 0
    /\ enqueued = <<>>
    /\ returned = <<>>
    /\ workerCalls = <<>>
    /\ lastOp = [op |-> "new", arg |-> NoArg, ret |-> RetUndefined]
    /\ clearCalled = FALSE
    /\ starts = 0
    /\ drain = NoDrain
    /\ stopped = NoStop
    /\ arr = aNew(dequeueWorkerCallback, dequeueBatchSize, dequeueDelay)

\* the calls both classes offer, each made on both objects, and the round firings
PairNext ==
    \/ \E v \in Values : Enqueue(v)
    \/ \E k \in 0..MaxK : Dequeue(k)
    \/ StartAutoDequeue
    \/ FireRound
    \/ Peek
    \/ Clear
    \/ RemoveDequeueWorkerCallback

PairSpec == PairInit /\ [][PairNext]_vars

\* ---- what a step did, read off the state before and after it ----
RoundStep == lastOp'.op \in {"start", "fire"}
FireStep == lastOp'.op = "fire"
\* timers the step registered (a fired round first consumes its own timer)
TimersAdded == pending' - (IF lastOp'.op = "fire" THEN pending - 1 ELSE pending)
\* worker invocations the step made
CallsAdded == Len(workerCalls') - Len(workerCalls)
LastCall == workerCalls[Len(workerCalls)]

\* C1: as long as no worker was ever invoked and clear() was never called, the
\* batches returned by dequeue, concatenated in call order, are a prefix of the
\* enqueued values in enqueue order, and the rest of the enqueued values is
\* exactly the queue's content: nothing is reordered, duplicated or skipped.
C1_FifoPrefix ==
    (workerCalls = <<>> /\ ~clearCalled)
        => /\ IsPrefix(returned, enqueued)
           /\ returned \o Contents = enqueued

C1_Witness ==
    /\ dequeueWorkerCallback = "null"
    /\ workerCalls = <<>>
    /\ ~clearCalled
    /\ enqueued = <<1, 2, 3>>
    /\ returned = <<1, 2, 3>>
    /\ lastOp.op = "dequeue"
    /\ lastOp.ret = RetList(<<2, 3>>)

\* C2: with no worker bound, dequeue(k) on a queue of size S returns the first
\* min(k, S) elements of the queue and leaves the other S - min(k, S) elements
\* in place, also when k exceeds S and when the queue is empty.
C2_DequeueClamped ==
    [][(lastOp'.op = "dequeue" /\ dequeueWorkerCallback = "null")
         => LET S == length
                m == Min(lastOp'.arg, S)
            IN /\ lastOp'.ret = RetList(SubSeq(Contents, 1, m))
               /\ Len(lastOp'.ret.val) = m
               /\ size(Q)' = S - m
               /\ Contents' = SubSeq(Contents, m + 1, S)]_vars

C2_Witness ==
    /\ dequeueWorkerCallback = "null"
    /\ lastOp.op = "dequeue"
    /\ lastOp.arg = 2
    /\ lastOp.ret = RetList(<<3>>)
    /\ enqueued = <<1, 2, 3>>
    /\ length = 0

\* C3: with a worker bound, dequeue(k) makes exactly one worker invocation whose
\* batch has min(dequeueBatchSize, length) elements, whatever k is, and returns
\* undefined; with the worker removed, dequeue(k) invokes no worker and returns
\* the batch of the first min(k, length) elements.
C3_DequeueModeSwitch ==
    [][lastOp'.op = "dequeue"
         => IF dequeueWorkerCallback = "function"
            THEN /\ CallsAdded = 1
                 /\ Len(LastCall'.batch) = Min(dequeueBatchSize, length)
                 /\ lastOp'.ret = RetUndefined
                 /\ returned' = returned
            ELSE /\ workerCalls' = workerCalls
                 /\ lastOp'.ret = RetList(Take(Contents, lastOp'.arg))
                 /\ returned' = returned \o lastOp'.ret.val]_vars

C3_Witness ==
    /\ dequeueWorkerCallback = "function"
    /\ dequeueBatchSize = 1
    /\ starts = 0
    /\ lastOp.op = "dequeue"
    /\ lastOp.arg = 2
    /\ lastOp.ret = RetUndefined
    /\ workerCalls = <<[batch |-> <<1>>, isEmpty |-> FALSE]>>
    /\ Contents = <<2, 3>>

\* C4: every worker invocation receives as batch the first
\* min(dequeueBatchSize, length) elements the queue held when the invocation
\* began, in queue order, and as isEmpty whether the queue length is 0 once
\* those elements are removed.
C4_WorkerArguments ==
    [][workerCalls' # workerCalls
         => /\ workerCalls' = Append(workerCalls,
                                     [batch |-> Take(Contents, dequeueBatchSize),
                                      isEmpty |-> (length' = 0)])
            /\ length' = length - Min(dequeueBatchSize, length)
            /\ Contents' = Drop(Contents, dequeueBatchSize)]_vars

C4_Witness ==
    /\ dequeueBatchSize = 2
    /\ workerCalls = <<[batch |-> <<1, 2>>, isEmpty |-> TRUE]>>
    /\ enqueued = <<1, 2>>
    /\ length = 0

\* C5: one startAutoDequeue() call on a queue of N >= 1 elements, with a worker
\* bound, manualStop false and batch size b, left alone until no round is
\* pending, has invoked the worker ceil(N/b) times with the consecutive slices
\* of b elements of the queue (the last one shorter when b does not divide N),
\* and isEmpty is true in the last invocation only; after j invocations the
\* queue holds the N - j*b elements not yet delivered.
C5_DrainToCompletion ==
    drain.active
        => LET b == dequeueBatchSize
               N == Len(drain.q)
               since == SubSeq(workerCalls, drain.calls + 1, Len(workerCalls))
               rounds == (N + b - 1) \div b
           IN /\ Len(since) <= rounds
              /\ \A i \in 1..Len(since) :
                    /\ since[i].batch = SubSeq(drain.q, (i - 1) * b + 1, Min(i * b, N))
                    /\ since[i].isEmpty = (i = rounds)
              /\ Contents = Drop(drain.q, Len(since) * b)
              /\ size(Q) = N - Min(Len(since) * b, N)
              /\ pending <= 1
              /\ (pending = 0 => Len(since) = rounds)

C5_Witness ==
    /\ drain.active
    /\ pending = 0
    /\ dequeueBatchSize = 2
    /\ drain.q = <<1, 2, 3>>
    /\ drain.calls = 0
    /\ workerCalls = <<[batch |-> <<1, 2>>, isEmpty |-> FALSE],
                       [batch |-> <<3>>, isEmpty |-> TRUE]>>

\* C6 as claimed: with manualStop false, a round registers a deferred re-entry
\* only if the queue is non-empty right after the round's extraction.
C6_Original ==
    [][(RoundStep /\ ~manualStop /\ TimersAdded = 1) => length' > 0]_vars

\* C6 as amended: with manualStop false and a worker bound, a round invokes the
\* worker and registers a deferred re-entry exactly when the queue is non-empty
\* at the start of the round, before its extraction; the round that empties the
\* queue still registers one more round, and a round that finds the queue empty
\* invokes no worker and registers nothing.
C6_Amended ==
    [][(RoundStep /\ ~manualStop /\ dequeueWorkerCallback = "function")
         => /\ TimersAdded = (IF length > 0 THEN 1 ELSE 0)
            /\ CallsAdded = (IF length > 0 THEN 1 ELSE 0)]_vars

C6_Witness ==
    /\ lastOp.op = "fire"
    /\ ~manualStop
    /\ stopped = "none"
    /\ dequeueWorkerCallback = "function"
    /\ starts = 1
    /\ pending = 1
    /\ length = 0
    /\ Len(workerCalls) = 2
    /\ LastCall.batch # <<>>
    /\ LastCall.isEmpty

\* C7: with a worker bound and manualStop true, every round invokes the worker
\* once and registers another round whatever the queue length; on an empty
\* queue the invocation receives the empty batch and isEmpty = true.
C7_ManualStopKeepsRunning ==
    [][(RoundStep /\ manualStop /\ dequeueWorkerCallback = "function")
         => /\ CallsAdded = 1
            /\ TimersAdded = 1
            /\ (length = 0 => LastCall' = [batch |-> <<>>, isEmpty |-> TRUE])]_vars

C7_Witness ==
    /\ lastOp.op = "fire"
    /\ manualStop
    /\ dequeueWorkerCallback = "function"
    /\ starts = 1
    /\ pending = 1
    /\ length = 0
    /\ Len(workerCalls) = 2
    /\ LastCall = [batch |-> <<>>, isEmpty |-> TRUE]

\* C8 as claimed: the round that was pending when stopAutoDequeue() was called
\* on a manualStop = true loop executes exactly one worker invocation when it
\* fires, also when the queue is empty.
C8_Original ==
    [][(stopped = "pendingManual" /\ dequeueWorkerCallback = "function" /\ FireStep)
         => CallsAdded = 1]_vars

\* C8 as amended: stopAutoDequeue() leaves the pending rounds pending, and the
\* round that was pending when it was called on a manualStop = true loop, when
\* it fires with the worker still bound, executes exactly one worker invocation
\* if the queue is non-empty at that moment and none if the queue is empty.
C8_Amended ==
    [][/\ (lastOp'.op = "stopAutoDequeue" => pending' = pending)
       /\ (stopped' \in {"pendingManual", "pendingAuto"} => pending' > 0)
       /\ (stopped = "pendingManual" /\ dequeueWorkerCallback = "function" /\ FireStep)
            => CallsAdded = (IF length > 0 THEN 1 ELSE 0)]_vars

C8_Witness ==
    /\ stopped = "firedManual"
    /\ lastOp.op = "fire"
    /\ dequeueWorkerCallback = "function"
    /\ starts = 1
    /\ pending = 0
    /\ length = 0
    /\ workerCalls = <<[batch |-> <<1>>, isEmpty |-> TRUE]>>

\* C9: the first round to fire after stopAutoDequeue() was called on a running
\* loop registers no further round, whatever the queue length and whatever
\* manualStop was when stopAutoDequeue() was called.
C9_StopEndsLoop ==
    [][(stopped \in {"pendingManual", "pendingAuto"} /\ FireStep)
         => TimersAdded = 0]_vars

\* C10: removeDequeueWorkerCallback() leaves the pending rounds pending, and a
\* round that fires with no worker bound invokes no worker, leaves the queue as
\* it is, registers no further round and returns false, under both values of
\* manualStop.
C10_RoundWithoutWorker ==
    [][/\ (lastOp'.op = "removeDequeueWorkerCallback" => pending' = pending)
       /\ (FireStep /\ dequeueWorkerCallback = "null")
            => /\ workerCalls' = workerCalls
               /\ Contents' = Contents
               /\ length' = length
               /\ TimersAdded = 0
               /\ lastOp'.ret = RetFalse]_vars

C10_Witness ==
    /\ lastOp.op = "fire"
    /\ lastOp.ret = RetFalse
    /\ dequeueWorkerCallback = "null"
    /\ manualStop
    /\ starts = 1
    /\ pending = 0
    /\ Contents = <<2, 3>>

\* C11: startAutoDequeue() called by the owner with no worker bound returns
\* false, invokes no worker, registers no round and leaves the chain, the
\* length and the drain policy as they were, for every queue state and both
\* values of manualStop.
C11_StartWithoutWorker ==
    [][(lastOp'.op = "start" /\ dequeueWorkerCallback = "null")
         => /\ lastOp'.ret = RetFalse
            /\ workerCalls' = workerCalls
            /\ pending' = pending
            /\ Q' = Q
            /\ Contents' = Contents
            /\ Policy' = Policy]_vars

C11_Witness ==
    /\ lastOp.op = "start"
    /\ lastOp.ret = RetFalse
    /\ dequeueWorkerCallback = "null"
    /\ manualStop
    /\ starts = 1
    /\ pending = 0
    /\ workerCalls = <<>>
    /\ Contents = <<1, 2>>

\* C12: a round that fires right after an enqueue made while it was pending,
\* with a worker bound, tests a length that counts the new element: it invokes
\* the worker with the first min(batchSize, length) elements of a queue whose
\* last element is the new one (so every element enqueued earlier and still
\* queued precedes it) and registers a further round; and as long as the worker
\* stays bound and the queue is not emptied, an enqueue made while a round is
\* pending leaves a round pending, so the loop lives on to deliver the element.
C12_EnqueueSeenByPendingRound ==
    [][/\ (FireStep /\ lastOp.op = "enqueue" /\ dequeueWorkerCallback = "function")
            => /\ length >= 1
               /\ Contents[Len(Contents)] = lastOp.arg
               /\ \A i \in 1..(Len(Contents) - 1) : Contents[i] < lastOp.arg
               /\ CallsAdded = 1
               /\ LastCall'.batch = Take(Contents, dequeueBatchSize)
               /\ Contents' = Drop(Contents, dequeueBatchSize)
               /\ TimersAdded = 1
       /\ (/\ pending > 0
           /\ dequeueWorkerCallback = "function"
           /\ dequeueWorkerCallback' = "function"
           /\ length' > 0
           /\ (length > 0 \/ lastOp'.op = "enqueue"))
            => pending' > 0]_vars

\* the first round emptied the queue, so 2 was enqueued while the next round
\* was pending, and that round delivered it
C12_Witness ==
    /\ lastOp.op = "fire"
    /\ ~manualStop
    /\ dequeueWorkerCallback = "function"
    /\ starts = 1
    /\ pending = 1
    /\ enqueued = <<1, 2>>
    /\ workerCalls = <<[batch |-> <<1>>, isEmpty |-> TRUE],
                       [batch |-> <<2>>, isEmpty |-> TRUE]>>

\* the owner's last call was a startAutoDequeue() that ran the loop procedure
\* with manualStop false, and the worker has been invoked
DrainStarted ==
    /\ lastOp.op = "start"
    /\ lastOp.ret = RetUndefined
    /\ dequeueWorkerCallback = "function"
    /\ ~manualStop
    /\ workerCalls # <<>>

Settled == length = 0 /\ pending = 0

\* C13: with manualStop false, once startAutoDequeue() has been called with a
\* worker bound, and as the owner enqueues only finitely often, fair firing of
\* the pending rounds leads to a state where the queue is empty and no round is
\* pending (unless the owner removes the worker meanwhile); and a state with an
\* empty queue and no pending round is left only by an enqueue or a
\* startAutoDequeue() call.
C13_DrainSettles ==
    /\ DrainStarted ~> (Settled \/ dequeueWorkerCallback = "null")
    /\ [][(Settled /\ lastOp'.op \notin {"enqueue", "start"}) => Settled']_vars

C13_Witness ==
    /\ Settled
    /\ lastOp.op = "fire"
    /\ dequeueWorkerCallback = "function"
    /\ ~manualStop
    /\ stopped = "none"
    /\ starts = 1
    /\ drain.active
    /\ drain.q = <<1, 2, 3>>
    /\ dequeueBatchSize = 1
    /\ workerCalls = <<[batch |-> <<1>>, isEmpty |-> FALSE],
                       [batch |-> <<2>>, isEmpty |-> FALSE],
                       [batch |-> <<3>>, isEmpty |-> TRUE]>>

\* C14: as long as no worker was invoked and clear() was not called, size() is
\* the number of enqueue calls minus the number of elements dequeued, it is
\* never negative, and isEmpty() holds exactly when the two numbers are equal;
\* every enqueue raises size() by one and every dequeue(1) on a non-empty queue
\* with no worker returns one element and lowers size() by one.
C14_SizeCounts ==
    [][/\ (lastOp'.op = "enqueue" => size(Q)' = size(Q) + 1)
       /\ (lastOp'.op = "dequeue" /\ lastOp'.arg = 1 /\ length > 0
             /\ dequeueWorkerCallback = "null")
            => /\ Len(returned') = Len(returned) + 1
               /\ size(Q)' = size(Q) - 1
       /\ size(Q)' >= 0
       /\ (workerCalls' = <<>> /\ ~clearCalled')
            => /\ size(Q)' = Len(enqueued') - Len(returned')
               /\ isEmpty(Q)' = (Len(enqueued') = Len(returned'))]_vars

C14_Witness ==
    /\ dequeueWorkerCallback = "null"
    /\ workerCalls = <<>>
    /\ ~clearCalled
    /\ lastOp = [op |-> "dequeue", arg |-> 1, ret |-> RetList(<<2>>)]
    /\ enqueued = <<1, 2, 3>>
    /\ returned = <<1, 2>>
    /\ size(Q) = 1
    /\ ~isEmpty(Q)

\* C15: peek() returns the element a following dequeue would return first, or
\* null when length is 0, and changes nothing: chain, length, drain policy,
\* pending rounds and the histories are the same before and after the call.
C15_PeekIsPure ==
    [][lastOp'.op = "peek"
         => /\ lastOp'.ret = (IF length = 0 THEN RetNull ELSE RetValue(Contents[1]))
            /\ (length > 0 =>
                  <<lastOp'.ret.val[1]>>
                     = getDequeueElements(Q', 1, dequeueBatchSize).elements)
            /\ Q' = Q
            /\ Contents' = Contents
            /\ Policy' = Policy
            /\ pending' = pending
            /\ <<enqueued, returned, workerCalls>>' = <<enqueued, returned, workerCalls>>]_vars

C15_Witness ==
    /\ lastOp = [op |-> "peek", arg |-> NoArg, ret |-> RetValue(2)]
    /\ Contents = <<2, 3>>
    /\ pending = 1

\* C16: clear() leaves size() = 0 and isEmpty() true with head and tail empty,
\* does not change the drain policy and does not cancel a pending round; on an
\* already empty queue it changes nothing of the queue.
C16_ClearResets ==
    [][lastOp'.op = "clear"
         => /\ size(Q)' = 0
            /\ isEmpty(Q)'
            /\ head' = Null
            /\ tail' = Null
            /\ Contents' = <<>>
            /\ peek(Q)' = RetNull
            /\ Policy' = Policy
            /\ pending' = pending
            /\ (length = 0 => Q' = Q)]_vars

C16_Witness ==
    /\ lastOp.op = "clear"
    /\ length = 0
    /\ pending = 1
    /\ dequeueWorkerCallback = "function"
    /\ enqueued = <<1, 2, 3>>
    /\ workerCalls = <<[batch |-> <<1>>, isEmpty |-> FALSE]>>

\* C17: in every state the chain is well formed: following next from head
\* visits exactly length nodes and then ends, the last node visited is tail and
\* has no successor, the heap holds no other node, head and tail are both empty
\* exactly when length is 0, and head is the same node as tail exactly when
\* length <= 1.
C17_ChainWellFormed ==
    LET visited == ChainNodes(nodes, head, length + 1)
    IN /\ Len(visited) = length
       /\ length >= 0
       /\ (length > 0 => /\ visited[length] = tail
                         /\ nodes[tail].next = Null)
       /\ {visited[i] : i \in 1..Len(visited)} = DOMAIN nodes
       /\ (length = 0 <=> (head = Null /\ tail = Null))
       /\ (head = Null <=> tail = Null)
       /\ (head = tail <=> length <= 1)

C17_Witness ==
    /\ lastOp.op = "enqueue"
    /\ length = 2
    /\ head # tail
    /\ nodes[head].next = tail
    /\ returned = <<1>>
    /\ Contents = <<2, 3>>

\* C18: with a worker bound and clear() never called, whatever the interleaving
\* of enqueue, dequeue, startAutoDequeue calls and firings of their rounds, the
\* batches passed to the worker, concatenated in invocation order, are a prefix
\* of the enqueued values, the queue holds exactly the rest, and the number of
\* delivered elements plus size() is the number of enqueued elements.
C18_NoLossNoDuplicate ==
    (dequeueWorkerCallback = "function" /\ ~clearCalled)
        => /\ IsPrefix(Delivered(workerCalls), enqueued)
           /\ Delivered(workerCalls) \o Contents = enqueued
           /\ Len(Delivered(workerCalls)) + size(Q) = Len(enqueued)

\* two loops started on the same queue, three deliveries so far
C18_Witness ==
    /\ dequeueWorkerCallback = "function"
    /\ ~clearCalled
    /\ starts = 2
    /\ pending = 2
    /\ lastOp.op = "fire"
    /\ Len(workerCalls) = 3
    /\ Delivered(workerCalls) = <<1, 2, 3>>

\* C19: the number of pending rounds never exceeds the number of
\* startAutoDequeue() calls the owner has made, and with manualStop true and a
\* worker bound it equals that number: every call starts a loop of its own and
\* every round re-arms itself once.
C19_PendingRounds ==
    /\ pending >= 0
    /\ pending <= starts
    /\ (manualStop /\ dequeueWorkerCallback = "function") => pending = starts

C19_Witness ==
    /\ manualStop
    /\ dequeueWorkerCallback = "function"
    /\ starts = 2
    /\ pending = 2
    /\ lastOp.op = "fire"
    /\ Len(workerCalls) = 3

\* C20: the array-backed queue and the linked-list queue built with the same
\* worker and batch size and manualStop false, driven by the same calls and
\* round firings, agree at every step: same return value, same worker
\* invocations, same pending rounds, size = rear - front = length, and
\* items[front..rear-1] holds the values of the chain in order.
C20_ArrayEquivalent ==
    arr.on
        => /\ ~manualStop
           /\ arr.ret = lastOp.ret
           /\ arr.calls = workerCalls
           /\ arr.pending = pending
           /\ arr.dequeueWorkerCallback = dequeueWorkerCallback
           /\ aSize(arr) = size(Q)
           /\ aSize(arr) = length
           /\ aIsEmpty(arr) = isEmpty(Q)
           /\ aPeek(arr) = peek(Q)
           /\ DOMAIN arr.items = arr.front..(arr.rear - 1)
           /\ aContents(arr) = Contents

C20_Witness ==
    /\ arr.on
    /\ lastOp.op = "fire"
    /\ arr.front = 2
    /\ arr.rear = 3
    /\ aContents(arr) = <<3>>
    /\ arr.pending = 1
    /\ arr.calls = <<[batch |-> <<1>>, isEmpty |-> FALSE],
                     [batch |-> <<2>>, isEmpty |-> FALSE]>>

====
